---- MODULE Spec2Model ----
\* A model of src/main.rs of rust-collections: the walkthrough of Vec, String and
\* HashMap. Each demonstration of main() is an independent group of operations on
\* its own variables; the literals main() passes are generalised to small sets
\* that contain them.
EXTENDS Integers, Sequences, FiniteSets, TLC

VARIABLES
    v, ires, gres, it, yielded, v0, pushed,
    own, buf, lastop,
    sres,
    subject, loop, pos, char_idx, byte_idx, decoded, raw,
    map, mret, passed, pc

vars == <<v, ires, gres, it, yielded, v0, pushed, own, buf, lastop, sres,
          subject, loop, pos, char_idx, byte_idx, decoded, raw,
          map, mret, passed, pc>>

vecVars == <<v, ires, gres, it, yielded, v0, pushed>>
catVars == <<own, buf, lastop>>
sliceVars == <<sres>>
iterVars == <<subject, loop, pos, char_idx, byte_idx, decoded, raw>>
mapVars == <<map, mret, passed, pc>>

\* The demonstrations share nothing: a statement of one leaves the variables of
\* the others alone.
OutsideVec == UNCHANGED <<catVars, sliceVars, iterVars, mapVars>>
OutsideConcat == UNCHANGED <<vecVars, sliceVars, iterVars, mapVars>>
OutsideSlice == UNCHANGED <<vecVars, catVars, iterVars, mapVars>>
OutsideChars == UNCHANGED <<vecVars, catVars, sliceVars, mapVars>>
OutsideMap == UNCHANGED <<vecVars, catVars, sliceVars, iterVars>>

\* Option<T> and the outcome of an operation that may panic.
None == <<"None">>
Some(x) == <<"Some", x>>
Panic == <<"Panic">>
Ok(x) == <<"Ok", x>>

\* What an access that may fail left behind: the operands it was given and
\* its outcome.  op is "-" while no such access has been made.
Access(op, i, pre, out) == [op |-> op, i |-> i, pre |-> pre, out |-> out]
NoAccess == Access("-", 0, <<>>, None)

----------------------------------------------------------------------------
\* Vec<i32> (main.rs lines 21-77)

\* Longest vector the model grows by push.
MaxLen == 5
\* The index main() probes beyond the end: v.get(100).
BigIndex == 100

\* The values main() pushes onto v3.
PushVals == {3, 4, 5, 6, 7}
\* The vec![..] literals of main().
VecLiterals == {<<1, 2, 3>>, <<1, 2, 3, 4>>, <<1, 2, 3, 4, 5>>, <<100, 32, 57>>}
\* The index main() reads with both v[2] and v.get(2).
ThirdIndex == 2
\* usize indices tried by the accesses: the first element, main()'s two
\* indices, and the last element and one past the end of a full vector.
Indices == {0, ThirdIndex, MaxLen - 1, MaxLen, BigIndex}

NoIter == -1

\* A push at the wrong end.
VecPushFront(s, x) == <<x>> \o s
\* Vec::push: the element goes after the last one.
VecPush(s, x) == Append(s, x)

\* A get that clamps the index to the last element.
VecGetClamped(s, i) ==
    IF Len(s) = 0 THEN None
    ELSE Some(s[(IF i < Len(s) THEN i ELSE Len(s) - 1) + 1])
\* Vec::get(i): None when i >= len, else Some(&s[i]) (0-based).
VecGet(s, i) == IF i >= Len(s) THEN None ELSE Some(s[i + 1])

\* An indexing that is off by one.
VecIndexOffByOne(s, i) == IF i + 1 < Len(s) THEN Ok(s[i + 2]) ELSE Panic
\* Index::index, &s[i]: panics when i >= len.
VecIndex(s, i) == IF i < Len(s) THEN Ok(s[i + 1]) ELSE Panic

\* The process has aborted on a panic: nothing runs after it.
VecAlive == ires.out # Panic

\* let v = Vec::new();
VecNew ==
    /\ VecAlive /\ it = NoIter
    /\ v' = <<>> /\ v0' = <<>> /\ pushed' = <<>>
    /\ ires' = NoAccess /\ gres' = NoAccess /\ yielded' = <<>>
    /\ UNCHANGED it
    /\ OutsideVec

\* let v = vec![..];
VecLiteral(l) ==
    /\ VecAlive /\ it = NoIter
    /\ v' = l /\ v0' = l /\ pushed' = <<>>
    /\ ires' = NoAccess /\ gres' = NoAccess /\ yielded' = <<>>
    /\ UNCHANGED it
    /\ OutsideVec

\* v.push(x): needs the exclusive borrow, so no iteration is open.
Push(x) ==
    /\ VecAlive /\ it = NoIter
    /\ Len(v) < MaxLen
    /\ v' = VecPush(v, x)
    /\ pushed' = Append(pushed, x)
    /\ ires' = NoAccess /\ gres' = NoAccess /\ yielded' = <<>>
    /\ UNCHANGED <<it, v0>>
    /\ OutsideVec

\* let e = &v[i]; match v.get(i) {..}  (lines 47-54): the get runs only if the
\* indexing did not panic.
IndexThenGet(i) ==
    /\ VecAlive /\ it = NoIter
    /\ ires' = Access("index", i, v, VecIndex(v, i))
    /\ gres' = IF VecIndex(v, i) = Panic THEN NoAccess
               ELSE Access("get", i, v, VecGet(v, i))
    /\ yielded' = <<>>
    /\ UNCHANGED <<v, it, v0, pushed>>
    /\ OutsideVec

\* let e = &v[i];  (line 58)
Index(i) ==
    /\ VecAlive /\ it = NoIter
    /\ ires' = Access("index", i, v, VecIndex(v, i))
    /\ gres' = NoAccess
    /\ yielded' = <<>>
    /\ UNCHANGED <<v, it, v0, pushed>>
    /\ OutsideVec

\* let e = v.get(i);  (line 61)
Get(i) ==
    /\ VecAlive /\ it = NoIter
    /\ gres' = Access("get", i, v, VecGet(v, i))
    /\ ires' = NoAccess
    /\ yielded' = <<>>
    /\ UNCHANGED <<v, it, v0, pushed>>
    /\ OutsideVec

\* for i in &v { .. }: the loop opens a shared borrow, yields one element per
\* turn, and releases the borrow when the iterator is exhausted.
IterStart ==
    /\ VecAlive /\ it = NoIter
    /\ it' = 0 /\ yielded' = <<>>
    /\ ires' = NoAccess /\ gres' = NoAccess
    /\ UNCHANGED <<v, v0, pushed>>
    /\ OutsideVec

IterNext ==
    /\ it # NoIter /\ it < Len(v)
    /\ yielded' = Append(yielded, v[it + 1])
    /\ it' = it + 1
    /\ UNCHANGED <<v, v0, pushed, ires, gres>>
    /\ OutsideVec

IterEnd ==
    /\ it # NoIter /\ it = Len(v)
    /\ it' = NoIter
    /\ UNCHANGED <<v, v0, pushed, ires, gres, yielded>>
    /\ OutsideVec

VecInit ==
    /\ v = <<>> /\ v0 = <<>> /\ pushed = <<>>
    /\ ires = NoAccess /\ gres = NoAccess
    /\ it = NoIter /\ yielded = <<>>

NextVec ==
    \/ VecNew
    \/ \E l \in VecLiterals : VecLiteral(l)
    \/ \E x \in PushVals : Push(x)
    \/ \E i \in Indices : IndexThenGet(i)
    \/ \E i \in Indices : Index(i)
    \/ \E i \in Indices : Get(i)
    \/ IterStart
    \/ IterNext
    \/ IterEnd

----------------------------------------------------------------------------
\* String (main.rs lines 99-168).  A str is modelled by the sequence of its
\* Unicode scalar values, a String by the bytes of its UTF-8 encoding.

\* "Hello, "
Hello == <<72, 101, 108, 108, 111, 44, 32>>
\* "world!"
World == <<119, 111, 114, 108, 100, 33>>
\* "Hello, world!"
HelloWorld == <<72, 101, 108, 108, 111, 44, 32, 119, 111, 114, 108, 100, 33>>
\* "foo"
Foo == <<102, 111, 111>>
\* "bar"
Bar == <<98, 97, 114>>
\* "initial data"
InitialData == <<105, 110, 105, 116, 105, 97, 108, 32, 100, 97, 116, 97>>
\* "Здравствуйте" (U+0417 U+0434 U+0440 U+0430 U+0432 U+0441 U+0442 U+0432
\* U+0443 U+0439 U+0442 U+0435)
Zdravstvuyte ==
    <<1047, 1076, 1088, 1072, 1074, 1089, 1090, 1074, 1091, 1081, 1090, 1077>>
\* "Зд"
Zd == <<1047, 1076>>
\* "नमस्ते" (U+0928 U+092E U+0938 U+094D U+0924 U+0947)
Namaste == <<2344, 2350, 2360, 2381, 2340, 2375>>

\* char::encode_utf8: one to four bytes for one scalar value.
EncodeUtf8(cp) ==
    IF cp < 128 THEN <<cp>>
    ELSE IF cp < 2048 THEN <<192 + (cp \div 64), 128 + (cp % 64)>>
    ELSE IF cp < 65536 THEN
        <<224 + (cp \div 4096), 128 + ((cp \div 64) % 64), 128 + (cp % 64)>>
    ELSE
        <<240 + (cp \div 262144), 128 + ((cp \div 4096) % 64),
          128 + ((cp \div 64) % 64), 128 + (cp % 64)>>

\* The bytes of a string literal.
RECURSIVE Utf8(_)
Utf8(chars) ==
    IF chars = <<>> THEN <<>>
    ELSE EncodeUtf8(Head(chars)) \o Utf8(Tail(chars))

\* ---- String concatenation and ownership (lines 106-122)

\* Longest String, in bytes, the model builds.
MaxBytes == 13

\* The bindings of the concatenation: s5 = s3 + &s4.
Operands == {"s3", "s4"}
Result == "s5"
Bindings == Operands \cup {Result}

\* The literals String::from is given, and the &str push_str is given.
FromLiterals == {Hello, World, Foo}
PushLiterals == {Bar}

\* String::push_str(&mut self, s: &str)
StrPushStr(s, t) == s \o t

\* An add that puts the right operand first.
StringAddSwapped(a, b) == b \o a
\* impl Add<&str> for String: fn add(mut self, other: &str) -> String
\* { self.push_str(other); self }
StringAdd(a, b) == StrPushStr(a, b)

\* What one statement did: the operation, the bindings it named, their
\* contents before it, and every binding's ownership before it.
Did(op, a, b, preown) ==
    [op |-> op, a |-> a, b |-> b,
     abytes |-> IF a \in Bindings THEN buf[a] ELSE <<>>,
     bbytes |-> IF b \in Bindings THEN buf[b] ELSE <<>>,
     preown |-> preown]

\* let n = String::from(lit);  (a new binding, shadowing any earlier one)
StringFrom(n, lit) ==
    /\ own' = [own EXCEPT ![n] = "live"]
    /\ buf' = [buf EXCEPT ![n] = Utf8(lit)]
    /\ lastop' = Did("from", "-", "-", own)
    /\ OutsideConcat

\* n.push_str(lit);  (line 110)
PushStr(n, lit) ==
    /\ own[n] = "live"
    /\ Len(buf[n]) + Len(Utf8(lit)) <= MaxBytes
    /\ buf' = [buf EXCEPT ![n] = StrPushStr(buf[n], Utf8(lit))]
    /\ lastop' = Did("push_str", n, "-", own)
    /\ UNCHANGED own
    /\ OutsideConcat

\* A concatenation that only borrows its left operand.
ConcatBorrowsLhs(a, b) ==
    /\ a # b
    /\ own[a] = "live" /\ own[b] = "live"
    /\ Len(buf[a]) + Len(buf[b]) <= MaxBytes
    /\ buf' = [buf EXCEPT ![Result] = StringAdd(buf[a], buf[b])]
    /\ own' = [own EXCEPT ![Result] = "live"]
    /\ lastop' = Did("add", a, b, own)
    /\ OutsideConcat

\* let s5 = a + &b;  (line 120): a is moved into add(), b is borrowed.
Concat(a, b) ==
    /\ a # b
    /\ own[a] = "live" /\ own[b] = "live"
    /\ Len(buf[a]) + Len(buf[b]) <= MaxBytes
    /\ buf' = [buf EXCEPT ![Result] = StringAdd(buf[a], buf[b]), ![a] = <<>>]
    /\ own' = [own EXCEPT ![Result] = "live", ![a] = "moved"]
    /\ lastop' = Did("add", a, b, own)
    /\ OutsideConcat

\* println!("..{}", n);  (lines 112, 122): reads a binding, which the compiler
\* accepts only while the binding owns its value.
PrintlnStr(n) ==
    /\ own[n] = "live"
    /\ lastop' = Did("println", n, "-", own)
    /\ UNCHANGED <<own, buf>>
    /\ OutsideConcat

CatInit ==
    /\ own = [n \in Bindings |-> "unbound"]
    /\ buf = [n \in Bindings |-> <<>>]
    /\ lastop = [op |-> "-", a |-> "-", b |-> "-", abytes |-> <<>>,
                 bbytes |-> <<>>, preown |-> [n \in Bindings |-> "unbound"]]

NextConcat ==
    \/ \E n \in Operands, lit \in FromLiterals : StringFrom(n, lit)
    \/ \E n \in Operands, lit \in PushLiterals : PushStr(n, lit)
    \/ \E a \in Operands, b \in Operands : Concat(a, b)
    \/ \E n \in Bindings : PrintlnStr(n)

----------------------------------------------------------------------------
\* ---- String slices (lines 146-153)

\* Largest byte offset a slice range names.
MaxOffset == 25

\* The string literals that are sliced and iterated.
TextLiterals == {Hello, World, Foo, Bar, InitialData, Zdravstvuyte, Namaste}

\* A boundary test that only checks the offset is inside the string.
IsCharBoundaryAnyInside(bytes, idx) == idx <= Len(bytes)
\* str::is_char_boundary: offset 0 and offset len are boundaries, an offset
\* past the end is not, and inside the string the byte at the offset must not
\* be a continuation byte 10xxxxxx, (b as i8) >= -0x40.
IsCharBoundary(bytes, idx) ==
    IF idx = 0 THEN TRUE
    ELSE IF idx >= Len(bytes) THEN idx = Len(bytes)
    ELSE bytes[idx + 1] < 128 \/ bytes[idx + 1] >= 192

\* &s[lo..hi]: str::index(Range<usize>) panics unless lo <= hi and both
\* offsets are char boundaries of s.
StrSlice(bytes, lo, hi) ==
    IF lo <= hi /\ IsCharBoundary(bytes, lo) /\ IsCharBoundary(bytes, hi)
    THEN Ok(SubSeq(bytes, lo + 1, hi))
    ELSE Panic

\* let s9 = &lit[lo..hi];  (line 151).  A panic aborts the process.
Slice(lit, lo, hi) ==
    /\ sres.out # Panic
    /\ sres' = [op |-> "slice", lit |-> lit, lo |-> lo, hi |-> hi,
                out |-> StrSlice(Utf8(lit), lo, hi)]
    /\ OutsideSlice

SliceInit ==
    sres = [op |-> "-", lit |-> <<>>, lo |-> 0, hi |-> 0, out |-> Ok(<<>>)]

NextSlice ==
    \E lit \in TextLiterals, lo \in 0..MaxOffset, hi \in 0..MaxOffset :
        Slice(lit, lo, hi)

----------------------------------------------------------------------------
\* ---- chars() and bytes() (lines 155-168)

\* A decoder that takes every byte for a character.
NextCodePointByteWise(bytes, p) == [ch |-> bytes[p + 1], width |-> 1]
\* core::str::next_code_point: decodes the scalar value that starts at byte
\* offset p (0-based) and tells how many bytes it took.
NextCodePoint(bytes, p) ==
    LET x == bytes[p + 1]
        cont(k) == bytes[p + 1 + k] % 64
    IN  IF x < 128 THEN [ch |-> x, width |-> 1]
        ELSE IF x < 224 THEN [ch |-> (x % 32) * 64 + cont(1), width |-> 2]
        ELSE IF x < 240 THEN
            [ch |-> (x % 32) * 4096 + cont(1) * 64 + cont(2), width |-> 3]
        ELSE
            [ch |-> (x % 8) * 262144 + cont(1) * 4096 + cont(2) * 64 + cont(3),
             width |-> 4]

\* for c in lit.chars() {  (line 158, with char_idx = 0 of line 157)
CharsStart(lit) ==
    /\ loop \in {"idle", "done"}
    /\ subject' = lit
    /\ loop' = "chars" /\ pos' = 0
    /\ char_idx' = 0 /\ decoded' = <<>>
    /\ byte_idx' = 0 /\ raw' = <<>>
    /\ OutsideChars

\* char_idx += 1; println!(.., c);
CharsNext ==
    /\ loop = "chars" /\ pos < Len(Utf8(subject))
    /\ LET n == NextCodePoint(Utf8(subject), pos)
       IN  /\ decoded' = Append(decoded, n.ch)
           /\ pos' = pos + n.width
    /\ char_idx' = char_idx + 1
    /\ UNCHANGED <<subject, loop, byte_idx, raw>>
    /\ OutsideChars

\* chars() is exhausted; for b in lit.bytes() {  (line 165, byte_idx = 0)
BytesStart ==
    /\ loop = "chars" /\ pos >= Len(Utf8(subject))
    /\ loop' = "bytes" /\ pos' = 0
    /\ byte_idx' = 0 /\ raw' = <<>>
    /\ UNCHANGED <<subject, char_idx, decoded>>
    /\ OutsideChars

\* byte_idx += 1; println!(.., b);
BytesNext ==
    /\ loop = "bytes" /\ pos < Len(Utf8(subject))
    /\ raw' = Append(raw, Utf8(subject)[pos + 1])
    /\ pos' = pos + 1
    /\ byte_idx' = byte_idx + 1
    /\ UNCHANGED <<subject, loop, char_idx, decoded>>
    /\ OutsideChars

\* bytes() is exhausted.
BytesEnd ==
    /\ loop = "bytes" /\ pos >= Len(Utf8(subject))
    /\ loop' = "done"
    /\ UNCHANGED <<subject, pos, char_idx, decoded, byte_idx, raw>>
    /\ OutsideChars

IterInit ==
    /\ subject = <<>> /\ loop = "idle" /\ pos = 0
    /\ char_idx = 0 /\ byte_idx = 0 /\ decoded = <<>> /\ raw = <<>>

NextChars ==
    \/ \E lit \in TextLiterals : CharsStart(lit)
    \/ CharsNext
    \/ BytesStart
    \/ BytesNext
    \/ BytesEnd

----------------------------------------------------------------------------
\* HashMap<String, String> (main.rs lines 185-233).  The map is the set of
\* its (key, value) entries.

Keys == {"Favorite Color", "Second Favorite Color", "Blue", "Yellow"}
Vals == {"Blue", "Green", "Pink", "50", "10"}

\* The calls main() makes on `map`, in order (lines 186, 194, 211, 219, 223,
\* 229, 230).
MainCalls ==
    << <<"insert", "Favorite Color", "Blue">>,
       <<"insert", "Second Favorite Color", "Green">>,
       <<"insert", "Favorite Color", "Green">>,
       <<"insert", "Favorite Color", "Pink">>,
       <<"insert", "Blue", "50">>,
       <<"entry", "Yellow", "10">>,
       <<"entry", "Blue", "10">> >>

\* pc when the calls made so far are not a prefix of main()'s.
OffMain == -1

HasKey(m, k) == \E e \in m : e[1] = k

\* HashMap::get(&k)
HashGet(m, k) ==
    IF HasKey(m, k) THEN Some((CHOOSE e \in m : e[1] = k)[2]) ELSE None

\* An insert that keeps the value of an occupied key.
HashInsertKeepsOld(m, k, val) == IF HasKey(m, k) THEN m ELSE m \cup {<<k, val>>}
\* An insert that adds an entry without removing the key's old one.
HashInsertAdds(m, k, val) == m \cup {<<k, val>>}
\* HashMap::insert(k, v): replaces the value of an occupied key.
HashInsert(m, k, val) == {e \in m : e[1] # k} \cup {<<k, val>>}

\* An or_insert that overwrites an occupied entry.
HashEntryOrInsertOverwrites(m, k, d) == {e \in m : e[1] # k} \cup {<<k, d>>}
\* HashMap::entry(k).or_insert(d): inserts d only into a vacant entry.
HashEntryOrInsert(m, k, d) == IF HasKey(m, k) THEN m ELSE m \cup {<<k, d>>}

\* How far along main()'s calls the map is after the call c.
Advance(c) ==
    IF pc # OffMain /\ pc < Len(MainCalls) /\ MainCalls[pc + 1] = c
    THEN pc + 1 ELSE OffMain

\* let mut map = HashMap::new();  (line 185)
MapNew ==
    /\ map' = {} /\ passed' = {} /\ pc' = 0
    /\ mret' = [op |-> "new", k |-> "-", v |-> "-", ret |-> None, pre |-> {}]
    /\ OutsideMap

\* map.insert(k, v);  returns the value the key had.
Insert(k, val) ==
    /\ map' = HashInsert(map, k, val)
    /\ mret' = [op |-> "insert", k |-> k, v |-> val, ret |-> HashGet(map, k),
                pre |-> map]
    /\ passed' = passed \cup {k}
    /\ pc' = Advance(<<"insert", k, val>>)
    /\ OutsideMap

\* map.entry(k).or_insert(d);  returns a reference to the value now bound.
EntryOrInsert(k, d) ==
    /\ map' = HashEntryOrInsert(map, k, d)
    /\ mret' = [op |-> "entry", k |-> k, v |-> d,
                ret |-> HashGet(HashEntryOrInsert(map, k, d), k), pre |-> map]
    /\ passed' = passed \cup {k}
    /\ pc' = Advance(<<"entry", k, d>>)
    /\ OutsideMap

\* map.get(&k)  (lines 199, 213, 221, 225)
GetKey(k) ==
    /\ mret' = [op |-> "get", k |-> k, v |-> "-", ret |-> HashGet(map, k),
                pre |-> map]
    /\ UNCHANGED <<map, passed, pc>>
    /\ OutsideMap

MapInit ==
    /\ map = {} /\ passed = {} /\ pc = 0
    /\ mret = [op |-> "new", k |-> "-", v |-> "-", ret |-> None, pre |-> {}]

NextMap ==
    \/ MapNew
    \/ \E k \in Keys, val \in Vals : Insert(k, val)
    \/ \E k \in Keys, d \in Vals : EntryOrInsert(k, d)
    \/ \E k \in Keys : GetKey(k)

----------------------------------------------------------------------------
Init == VecInit /\ CatInit /\ SliceInit /\ IterInit /\ MapInit

SpecVec == Init /\ [][NextVec]_vars
SpecConcat == Init /\ [][NextConcat]_vars
SpecSlice == Init /\ [][NextSlice]_vars
SpecChars == Init /\ [][NextChars]_vars
SpecMap == Init /\ [][NextMap]_vars

----------------------------------------------------------------------------
\* Properties of Vec, checked under SpecVec.

C4_IndexGetAgree ==
    (/\ ires.op = "index" /\ gres.op = "get"
     /\ ires.i = gres.i /\ ires.pre = gres.pre
     /\ ires.i < Len(ires.pre)) =>
        (/\ ires.out[1] = "Ok"
         /\ gres.out = Some(ires.out[2]))

\* main()'s own accesses: v[2] and v.get(2) on vec![1, 2, 3, 4, 5] are both 3.
C4_Witness ==
    /\ ires.op = "index" /\ gres.op = "get"
    /\ ires.i = ThirdIndex /\ gres.i = ThirdIndex
    /\ ires.pre = <<1, 2, 3, 4, 5>> /\ gres.pre = <<1, 2, 3, 4, 5>>
    /\ ires.out = Ok(3) /\ gres.out = Some(3)

\* C5: n pushes onto an empty vector give a vector of length n, an iteration
\* over it yields exactly the pushed elements in push order, and a push
\* leaves every earlier element at its index with its value.
C5_AppendOrder ==
    /\ v = v0 \o pushed
    /\ v0 = <<>> => (Len(v) = Len(pushed) /\ \A i \in 1..Len(v) : v[i] = pushed[i])
    /\ it # NoIter => (it <= Len(v) /\ yielded = SubSeq(v, 1, it))
    /\ (v0 = <<>> /\ it = Len(v)) => yielded = pushed

\* main()'s v3: five pushes, then a finished iteration.
C5_Witness ==
    /\ v0 = <<>> /\ pushed = <<3, 4, 5, 6, 7>>
    /\ Len(v) = 5 /\ it = 5
    /\ yielded = <<3, 4, 5, 6, 7>>

----------------------------------------------------------------------------
\* Properties of String, checked under SpecConcat, SpecSlice and SpecChars.

\* The byte offsets of a string literal that lie between two characters.
BoundariesOf(lit) == {Len(Utf8(SubSeq(lit, 1, j))) : j \in 0..Len(lit)}

\* C7: a + &b holds the bytes of a followed by the bytes of b, so its byte
\* length is the sum of the two; "Hello, " + "world!" is "Hello, world!".
C7_ConcatBytes ==
    lastop.op = "add" =>
        LET r == buf[Result]
            na == Len(lastop.abytes)
            nb == Len(lastop.bbytes)
        IN  /\ Len(r) = na + nb
            /\ \A i \in 1..na : r[i] = lastop.abytes[i]
            /\ \A j \in 1..nb : r[na + j] = lastop.bbytes[j]
            /\ (lastop.abytes = Utf8(Hello) /\ lastop.bbytes = Utf8(World)) =>
                   r = Utf8(HelloWorld)

\* main()'s s5 = s3 + &s4 with s3 = "Hello, " and s4 = "world!".
C7_Witness ==
    /\ lastop.op = "add" /\ lastop.a = "s3" /\ lastop.b = "s4"
    /\ lastop.abytes = Utf8(Hello) /\ lastop.bbytes = Utf8(World)
    /\ buf[Result] = Utf8(HelloWorld) /\ Len(buf[Result]) = 13

\* C8: a + &b takes ownership of a and only reads b: after it a is moved and
\* cannot be named by a statement, b is still owned by its binding, usable and
\* unchanged; and no statement ever names a binding that was moved.
C8_MoveLhsBorrowRhs ==
    /\ lastop.op = "add" =>
           /\ own[lastop.a] = "moved" /\ ~ENABLED PrintlnStr(lastop.a)
           /\ own[lastop.b] = "live" /\ ENABLED PrintlnStr(lastop.b)
           /\ buf[lastop.b] = lastop.bbytes
           /\ own[Result] = "live"
    /\ lastop.a \in Bindings => lastop.preown[lastop.a] = "live"
    /\ lastop.b \in Bindings => lastop.preown[lastop.b] = "live"

\* main()'s concatenation has run: s3 is gone, s4 is still "world!".
C8_Witness ==
    /\ lastop.op = "add" /\ lastop.a = "s3" /\ lastop.b = "s4"
    /\ own["s3"] = "moved" /\ own["s4"] = "live"
    /\ buf["s4"] = Utf8(World)

\* C6: &s[lo..hi] succeeds exactly when lo <= hi and both offsets lie between
\* two characters of s, and then it is the encoding of a run of whole
\* characters of s; otherwise it panics and nothing runs after it.  On
\* "Здравствуйте", [0..4) is "Зд" and [0..3) panics.
C6_SliceBoundaries ==
    sres.op = "slice" =>
        LET lit == sres.lit
            whole == /\ sres.lo <= sres.hi
                     /\ sres.lo \in BoundariesOf(lit)
                     /\ sres.hi \in BoundariesOf(lit)
        IN  /\ (sres.out # Panic) <=> whole
            /\ sres.out # Panic =>
                   \E i \in 0..Len(lit), j \in 0..Len(lit) :
                       i <= j /\ sres.out = Ok(Utf8(SubSeq(lit, i + 1, j)))
            /\ sres.out = Panic => ~ENABLED NextSlice
            /\ (lit = Zdravstvuyte /\ sres.lo = 0 /\ sres.hi = 4) =>
                   sres.out = Ok(Utf8(Zd))
            /\ (lit = Zdravstvuyte /\ sres.lo = 0 /\ sres.hi = 3) =>
                   sres.out = Panic

\* main()'s s9 = &hello[0..4].
C6_Witness ==
    /\ sres.op = "slice" /\ sres.lit = Zdravstvuyte
    /\ sres.lo = 0 /\ sres.hi = 4
    /\ sres.out = Ok(<<208, 151, 208, 180>>)

\* C9: chars() yields the characters of the string, one count each, bytes()
\* yields every byte of the buffer once, both loops end, and the two counts
\* differ when the string has a non-ASCII character: 6 characters and more
\* than 6 bytes for "नमस्ते".
C9_CharsVersusBytes ==
    /\ pos <= Len(Utf8(subject))
    /\ char_idx = Len(decoded) /\ byte_idx = Len(raw)
    /\ char_idx <= Len(subject) /\ byte_idx <= Len(Utf8(subject))
    /\ loop \in {"bytes", "done"} => (char_idx = Len(subject) /\ decoded = subject)
    /\ loop = "done" =>
           /\ byte_idx = Len(Utf8(subject)) /\ raw = Utf8(subject)
           /\ char_idx <= byte_idx
           /\ (\E i \in 1..Len(subject) : subject[i] >= 128) => char_idx < byte_idx
           /\ subject = Namaste => (char_idx = 6 /\ byte_idx > 6)

\* main()'s two loops over "नमस्ते" have ended.
C9_Witness ==
    /\ loop = "done" /\ subject = Namaste
    /\ char_idx = 6 /\ byte_idx = 18

----------------------------------------------------------------------------
\* Properties of HashMap, checked under SpecMap.

KeysOf(m) == {e[1] : e \in m}

\* The map main() prints on line 233.
MainFinalMap ==
    { <<"Favorite Color", "Pink">>, <<"Second Favorite Color", "Green">>,
      <<"Blue", "50">>, <<"Yellow", "10">> }

\* C1: entry(k).or_insert(d) never overwrites: on an occupied key the map is
\* left exactly as it was and the value already bound is returned; on a
\* vacant key k -> d is added and nothing else changes.  With "Blue" -> "50",
\* entry("Blue").or_insert("10") leaves "50".
C1_EntryNeverOverwrites ==
    mret.op = "entry" =>
        /\ HasKey(mret.pre, mret.k) =>
               /\ map = mret.pre
               /\ \E e \in mret.pre : e[1] = mret.k /\ mret.ret = Some(e[2])
        /\ ~HasKey(mret.pre, mret.k) =>
               /\ map = mret.pre \cup {<<mret.k, mret.v>>}
               /\ mret.ret = Some(mret.v)
        /\ (<<"Blue", "50">> \in mret.pre /\ mret.k = "Blue" /\ mret.v = "10") =>
               (<<"Blue", "50">> \in map /\ <<"Blue", "10">> \notin map)

\* main()'s last call: entry("Blue").or_insert("10") on a map with "Blue" -> "50".
C1_Witness ==
    /\ pc = Len(MainCalls)
    /\ mret.op = "entry" /\ mret.k = "Blue" /\ mret.v = "10"
    /\ <<"Blue", "50">> \in mret.pre /\ <<"Blue", "50">> \in map
    /\ mret.ret = Some("50")

\* C2: insert(k, v) always overwrites: afterwards get(k) is Some(v) whether or
\* not k was bound, the call returns the value k had (None if it had none),
\* and the other keys keep their values.  With "Favorite Color" -> "Blue",
\* insert("Favorite Color", "Green") makes get("Favorite Color") Some("Green").
C2_InsertOverwrites ==
    mret.op = "insert" =>
        /\ <<mret.k, mret.v>> \in map
        /\ \A e \in map : e[1] = mret.k => e[2] = mret.v
        /\ HashGet(map, mret.k) = Some(mret.v)
        /\ HasKey(mret.pre, mret.k) =>
               \E e \in mret.pre : e[1] = mret.k /\ mret.ret = Some(e[2])
        /\ ~HasKey(mret.pre, mret.k) => mret.ret = None
        /\ \A e \in mret.pre : e[1] # mret.k => e \in map
        /\ \A e \in map : e[1] # mret.k => e \in mret.pre

\* main()'s third call: insert("Favorite Color", "Green") over "Blue".
C2_Witness ==
    /\ pc = 3
    /\ mret.op = "insert" /\ mret.k = "Favorite Color" /\ mret.v = "Green"
    /\ <<"Favorite Color", "Blue">> \in mret.pre
    /\ mret.ret = Some("Blue")
    /\ HashGet(map, "Favorite Color") = Some("Green")

\* C10: after any calls of insert and entry().or_insert() on a map created
\* empty, no key has two entries, the keys are exactly the keys the calls were
\* given, and a call adds one entry exactly when its key was vacant; after
\* main()'s seven calls the map is the four entries of MainFinalMap.
C10_UniqueKeys ==
    /\ \A e1 \in map, e2 \in map : e1[1] = e2[1] => e1 = e2
    /\ KeysOf(map) = passed
    /\ Cardinality(map) = Cardinality(passed)
    /\ mret.op \in {"insert", "entry"} =>
           Cardinality(map) =
               Cardinality(mret.pre) + (IF HasKey(mret.pre, mret.k) THEN 0 ELSE 1)
    /\ pc = Len(MainCalls) => map = MainFinalMap

\* main() has made all seven calls.
C10_Witness ==
    /\ pc = Len(MainCalls)
    /\ Cardinality(map) = 4
    /\ map = MainFinalMap

====
